---- MODULE Spec2Model ----
(***************************************************************************)
(* The LightStack WebSocket session (custom_components/lightstack/         *)
(* websocket.py): one LightStackWebSocket object, the tasks that call      *)
(* send_command on it, its read task (_listen) and the owner task that     *)
(* calls connect / start_listening / disconnect / reconnect.               *)
(*                                                                         *)
(* asyncio runs one task at a time and switches only at an await, so each  *)
(* action is the code between two suspension points of one task.           *)
(*                                                                         *)
(* A JSON mapping is the set of its paths: {"command_id": "u1",            *)
(* "result": {"ok": "true"}} is {<<"command_id","u1">>,                    *)
(* <<"result","ok","true">>}.                                              *)
(***************************************************************************)
EXTENDS Integers, Sequences, FiniteSets, TLC

\* How many send_command calls a run makes.
MaxCmds == 2
\* How many entries the delivery log holds before no new push event, listen
\* task or connection is started.
MaxEvents == 1
\* The length of the listeners' log up to which the coordinator's session
\* receives push events and reconnects.
MaxLog == 3

\* uuid.uuid4(): every call draws a token no other call has.
Tokens == <<"u1", "u2", "u3", "u4">>
Cmds == {Tokens[i] : i \in 1..MaxCmds}
\* A command_id no call of this session was given.
ForeignId == "zz"

---------------------------------------------------------------------------
\* JSON mappings as path sets

Str(key, v) == {<<key, v>>}
Sub(key, m) == {<<key>> \o p : p \in m}
HasStr(m, key) == \E p \in m : Len(p) = 2 /\ p[1] = key
\* dict.get(key, default) for a string value
GetStr(m, key, default) ==
    IF HasStr(m, key)
    THEN (CHOOSE p \in m : Len(p) = 2 /\ p[1] = key)[2]
    ELSE default
\* dict.get(key, {}) for a mapping value
GetMap(m, key) == {Tail(p) : p \in {q \in m : Len(q) > 2 /\ q[1] = key}}

\* Python's None and "" are both falsy for `command_id and ...`
Falsy == ""

\* The result mappings a server answers with.
Results == {Str("ok", "true")}
\* Error codes and messages of an error envelope; Falsy: the key is missing.
ErrorTexts == {[code |-> "ALERT_NOT_FOUND", message |-> "no such alert"],
               [code |-> Falsy, message |-> Falsy]}

OptStr(key, v) == IF v = Falsy THEN {} ELSE Str(key, v)

\* Inbound text frames, decoded: {"type": ..., "data": {...}}
CommandResultFrame(id, r) ==
    [type |-> "command_result", data |-> OptStr("command_id", id) \cup Sub("result", r)]
ErrorFrame(id, code, msg) ==
    [type |-> "error",
     data |-> OptStr("command_id", id) \cup OptStr("code", code) \cup OptStr("message", msg)]
PushKinds == {"alert_triggered"}

\* The payload of a push event and the records in it are mappings with the
\* keys that are present; None is Null, {} is EmptyMap.
Null == [null |-> TRUE]
EmptyMap == [k \in {} |-> TRUE]
Has(m, key) == key \in DOMAIN m
\* dict.get(key, default)
Get(m, key, default) == IF Has(m, key) THEN m[key] ELSE default
\* `if value`, for a mapping or None
Truthy(m) == m # Null /\ m # EmptyMap
\* None, where the other values are strings
NoneValue == "None"

PushFrame(kind) == [type |-> kind, data |-> EmptyMap]

---------------------------------------------------------------------------
\* coordinator.py: the snapshot and its reducers

\* Mutant: get_field reads the top-level record first.
GetFieldTopFirst(d, name, default) ==
    LET config == Get(d, "config", Null) IN
    IF Has(d, name) THEN d[name]
    ELSE IF Truthy(config) /\ Has(config, name) THEN config[name]
    ELSE default

\* get_field of LightStackAlert.from_dict: the nested config's value if the
\* config has the field, else the top-level one.
GetField(d, name, default) ==
    LET config == Get(d, "config", Null) IN
    IF Truthy(config) /\ Has(config, name) THEN config[name]
    ELSE Get(d, name, default)

\* LightStackAlert.from_dict. The values of the optional fields are passed
\* through as they are: the model writes them as strings, None as NoneValue.
AlertFromDict(d) ==
    [alert_key |-> Get(d, "alert_key", ""),
     is_active |-> Get(d, "is_active", FALSE),
     effective_priority |-> Get(d, "effective_priority", 3),
     priority |-> Get(d, "priority", NoneValue),
     last_triggered_at |-> Get(d, "last_triggered_at", NoneValue),
     name |-> GetField(d, "name", NoneValue),
     description |-> GetField(d, "description", NoneValue),
     default_priority |-> GetField(d, "default_priority", 3),
     led_color |-> GetField(d, "led_color", NoneValue),
     led_effect |-> GetField(d, "led_effect", NoneValue),
     led_brightness |-> GetField(d, "led_brightness", NoneValue),
     led_duration |-> GetField(d, "led_duration", NoneValue)]

\* LightStackState(...)
LightStackState(clear, current, count, alerts) ==
    [is_all_clear |-> clear, current_alert |-> current, active_count |-> count,
     active_alerts |-> alerts]

\* coordinator.data before async_setup has set it
NoSnapshot == [nodata |-> TRUE]

\* `self.data.active_alerts if self.data else []`
ActiveAlerts(d) == IF d = NoSnapshot THEN <<>> ELSE d.active_alerts
\* `self.data.current_alert if self.data else None`
CurrentAlert(d) == IF d = NoSnapshot THEN Null ELSE d.current_alert

\* `LightStackAlert.from_dict(x) if x else None`
AlertOrNone(x) == IF Truthy(x) THEN AlertFromDict(x) ELSE Null

\* LightStackState.from_dict
StateFromDict(p) ==
    LET alerts == Get(p, "active_alerts", <<>>) IN
    LightStackState(Get(p, "is_all_clear", TRUE),
                    AlertOrNone(Get(p, "current_alert", Null)),
                    Get(p, "active_count", 0),
                    [i \in 1..Len(alerts) |-> AlertFromDict(alerts[i])])

\* Mutant: active_count is counted from the list.
HandleCurrentAlertChangedRecount(d, ev) ==
    LightStackState(Get(ev, "is_all_clear", TRUE),
                    AlertOrNone(Get(ev, "current", Null)),
                    Len(ActiveAlerts(d)),
                    ActiveAlerts(d))

\* _handle_current_alert_changed
HandleCurrentAlertChanged(d, ev) ==
    LightStackState(Get(ev, "is_all_clear", TRUE),
                    AlertOrNone(Get(ev, "current", Null)),
                    Get(ev, "active_count", 0),
                    ActiveAlerts(d))

\* Mutant: the triggered alert is always appended.
UpsertAppends(alerts, a) == Append(alerts, a)

\* The list with the alert put in place of the entry of its key, or appended.
Upsert(alerts, a) ==
    IF \E i \in 1..Len(alerts) : alerts[i].alert_key = a.alert_key
    THEN LET idx == CHOOSE i \in 1..Len(alerts) :
                        /\ alerts[i].alert_key = a.alert_key
                        /\ \A j \in 1..(i - 1) : alerts[j].alert_key # a.alert_key
         IN [alerts EXCEPT ![idx] = a]
    ELSE Append(alerts, a)

\* Mutant: the current alert is taken from the payload whatever current_changed says.
HandleAlertTriggeredAlwaysCurrent(d, ev) ==
    LET triggered == AlertOrNone(Get(ev, "alert", Null))
        alerts == IF triggered # Null THEN Upsert(ActiveAlerts(d), triggered)
                  ELSE ActiveAlerts(d)
    IN LightStackState(FALSE, AlertOrNone(Get(ev, "new_current", Null)), Len(alerts), alerts)

\* _handle_alert_triggered
HandleAlertTriggered(d, ev) ==
    LET triggered == AlertOrNone(Get(ev, "alert", Null))
        alerts == IF triggered # Null THEN Upsert(ActiveAlerts(d), triggered)
                  ELSE ActiveAlerts(d)
        current == IF Get(ev, "current_changed", FALSE)
                   THEN AlertOrNone(Get(ev, "new_current", Null))
                   ELSE CurrentAlert(d)
    IN LightStackState(FALSE, current, Len(alerts), alerts)

\* Mutant: the list is left as it is.
WithoutNothing(alerts, key) == alerts

\* `[a for a in active_alerts if a.alert_key != cleared_key]`
RECURSIVE Without(_, _)
Without(alerts, key) ==
    IF alerts = <<>> THEN <<>>
    ELSE IF Head(alerts).alert_key = key THEN Without(Tail(alerts), key)
    ELSE <<Head(alerts)>> \o Without(Tail(alerts), key)

\* _handle_alert_cleared
HandleAlertCleared(d, ev) ==
    LET current == AlertOrNone(Get(ev, "new_current", Null))
        alert == Get(ev, "alert", Null)
        key == IF Truthy(alert) THEN Get(alert, "alert_key", "") ELSE ""
        alerts == IF key # "" THEN Without(ActiveAlerts(d), key) ELSE ActiveAlerts(d)
    IN LightStackState(current = Null, current, Len(alerts), alerts)

\* Mutant: the list is kept.
HandleAllAlertsClearedKeepsList(d, ev) == LightStackState(TRUE, Null, 0, ActiveAlerts(d))

\* _handle_all_alerts_cleared
HandleAllAlertsCleared(d, ev) == LightStackState(TRUE, Null, 0, <<>>)

\* The event kinds _handle_event has a reducer for.
ReducedKinds == {"current_alert_changed", "alert_triggered", "alert_cleared",
                 "all_alerts_cleared", "reconnected"}

\* Mutant: the reconnected event is not reduced.
HandleEventWithoutReconnected(d, kind, ev) ==
    CASE kind = "current_alert_changed" -> HandleCurrentAlertChanged(d, ev)
      [] kind = "alert_triggered" -> HandleAlertTriggered(d, ev)
      [] kind = "alert_cleared" -> HandleAlertCleared(d, ev)
      [] kind = "all_alerts_cleared" -> HandleAllAlertsCleared(d, ev)
      [] OTHER -> d

\* Mutant: an event of a kind without a reducer resets the snapshot.
HandleEventResetsOnOther(d, kind, ev) ==
    CASE kind = "current_alert_changed" -> HandleCurrentAlertChanged(d, ev)
      [] kind = "alert_triggered" -> HandleAlertTriggered(d, ev)
      [] kind = "alert_cleared" -> HandleAlertCleared(d, ev)
      [] kind = "all_alerts_cleared" -> HandleAllAlertsCleared(d, ev)
      [] kind = "reconnected" -> StateFromDict(Get(ev, "state", EmptyMap))
      [] OTHER -> HandleAllAlertsCleared(d, ev)

\* _handle_event, for a payload that is a mapping.
HandleEvent(d, kind, ev) ==
    CASE kind = "current_alert_changed" -> HandleCurrentAlertChanged(d, ev)
      [] kind = "alert_triggered" -> HandleAlertTriggered(d, ev)
      [] kind = "alert_cleared" -> HandleAlertCleared(d, ev)
      [] kind = "all_alerts_cleared" -> HandleAllAlertsCleared(d, ev)
      [] kind = "reconnected" -> StateFromDict(Get(ev, "state", EmptyMap))
      [] OTHER -> d

---------------------------------------------------------------------------
VARIABLES
    ws,            \* self._ws: "None" or "sock"
    wsClosed,      \* the closed flag of the socket made last
    linkUp,        \* that socket is open and its transport still carries frames
    connected,     \* self._connected
    running,       \* self._running
    serverVersion, \* self._server_version
    listeners,     \* self._listeners
    pending,       \* the keys of self._pending_commands
    fut,           \* the future made for each command id
    listenTask,    \* self._listen_task and where that task is
    listenErr,     \* the exception _listen caught and logged, if any
    call,          \* each send_command call: where it is and how it ended
    wire,          \* the command ids whose frame was written to a socket
    ctl,           \* the owner task: where it is
    ctlOp,         \* the method the owner task is in
    ctlRes,        \* how the owner's last method ended
    delivered,     \* what the listeners were called with, in order
    coordData,     \* coordinator.data, the snapshot
    sup,           \* coordinator._maintain_task: "None", "alive" or "done"
    shut           \* async_shutdown: "none", or "joining" at `await self._maintain_task`

vars == <<ws, wsClosed, linkUp, connected, running, serverVersion, listeners,
          pending, fut, listenTask, listenErr, call, wire, ctl, ctlOp, ctlRes,
          delivered, coordData, sup, shut>>

sessionVars == <<ws, wsClosed, linkUp, connected, running, serverVersion>>
ownerVars == <<ctl, ctlOp, ctlRes>>
coordVars == <<coordData, sup, shut>>

NoFuture == [state |-> "none", value |-> {}]
NewCall == [pc |-> "new", wait |-> FALSE, stale |-> FALSE, kind |-> "none", value |-> {}]

Init ==
    /\ ws = "None"
    /\ wsClosed = FALSE
    /\ linkUp = FALSE
    /\ connected = FALSE
    /\ running = FALSE
    /\ serverVersion = Falsy
    /\ listeners = <<>>
    /\ pending = {}
    /\ fut = [c \in Cmds |-> NoFuture]
    /\ listenTask = "None"
    /\ listenErr = "none"
    /\ call = [c \in Cmds |-> NewCall]
    /\ wire = {}
    /\ ctl = "idle"
    /\ ctlOp = "none"
    /\ ctlRes = "none"
    /\ delivered = <<>>
    /\ coordData = NoSnapshot
    /\ sup = "None"
    /\ shut = "none"

\* Mutant: the socket is not looked at.
ConnectedFlagOnly == connected

\* The connected property.
Connected == connected /\ ws # "None" /\ ~wsClosed

---------------------------------------------------------------------------
\* asyncio.Future

FutureDone(f) == f.state \in {"result", "exception", "cancelled"}

\* Future.set_result / set_exception raise InvalidStateError on a done future.
SetResult(f, v) ==
    IF FutureDone(f) THEN [ok |-> FALSE, f |-> f]
    ELSE [ok |-> TRUE, f |-> [state |-> "result", value |-> v]]
SetException(f, v) ==
    IF FutureDone(f) THEN [ok |-> FALSE, f |-> f]
    ELSE [ok |-> TRUE, f |-> [state |-> "exception", value |-> v]]
\* Future.cancel() changes nothing on a done future.
Cancel(f) == IF FutureDone(f) THEN f ELSE [state |-> "cancelled", value |-> {}]

\* LightStackCommandError(code, message)
CommandError(code, message) == Str("code", code) \cup Str("message", message)

---------------------------------------------------------------------------
\* add_listener, its remover, and _notify_listeners

\* The coordinator's listener, _handle_event.
TheListener == "coord"
\* Callbacks: the coordinator's, one that returns, one that raises, and one that
\* calls its own remover.
Callbacks == {TheListener, "plain", "raiser", "quitter"}

\* The remover add_listener returns: list.remove(callback), if it is listed.
RECURSIVE RemoveCallback(_, _)
RemoveCallback(ls, l) ==
    IF ls = <<>> THEN <<>>
    ELSE IF Head(ls) = l THEN Tail(ls)
    ELSE <<Head(ls)>> \o RemoveCallback(Tail(ls), l)

\* The kinds whose reducer reads the payload.
PayloadKinds == ReducedKinds \ {"all_alerts_cleared"}
\* The callback raises: _handle_event does when it reads a payload that is None.
Raises(l, kind, ev) == l = "raiser" \/ (l = TheListener /\ ev = Null /\ kind \in PayloadKinds)
\* The callback calls its own remover.
Unsubscribes(l) == l = "quitter"

\* `except Exception` around each callback
ListenerErrorCaught == TRUE

\* `for listener in self._listeners`, from the i-th entry on: the list is the
\* live one, so the iteration goes on at index i + 1 of whatever the list is then.
RECURSIVE Dispatch(_, _, _, _, _, _)
Dispatch(ls, i, log, d, kind, ev) ==
    IF i > Len(ls)
    THEN [listeners |-> ls, delivered |-> log, data |-> d, raised |-> FALSE]
    ELSE LET l == ls[i]
             called == Append(log, [listener |-> l, type |-> kind])
             fails == Raises(l, kind, ev)
             d2 == IF l = TheListener /\ ~fails THEN HandleEvent(d, kind, ev) ELSE d
             ls2 == IF Unsubscribes(l) THEN RemoveCallback(ls, l) ELSE ls
         IN IF fails /\ ~ListenerErrorCaught
            THEN [listeners |-> ls2, delivered |-> called, data |-> d2, raised |-> TRUE]
            ELSE Dispatch(ls2, i + 1, called, d2, kind, ev)

\* Mutant: every event is dispatched twice.
NotifyTwice(ls, log, d, kind, ev) ==
    LET once == Dispatch(ls, 1, log, d, kind, ev)
    IN Dispatch(once.listeners, 1, once.delivered, once.data, kind, ev)

\* _notify_listeners
Notify(ls, log, d, kind, ev) == Dispatch(ls, 1, log, d, kind, ev)

---------------------------------------------------------------------------
\* send_command

\* Mutant: the entry is not in the map when the frame is written.
RegisterLate(c, w) == pending

\* self._pending_commands[command_id] = future, when a result is awaited
Register(c, w) == IF w THEN pending \cup {c} ELSE pending

\* The call ends: what its caller gets.
Finish(c, kind, value) ==
    [call EXCEPT ![c] = [@ EXCEPT !.pc = "done", !.kind = kind, !.value = value]]

\* wait_for_result as the callers pass it: ping, get_state, trigger_alert,
\* clear_alert and clear_all_alerts all leave it at its default, True.
WaitModes == {TRUE}

\* Tokens are drawn in order.
NextToken(c) ==
    \E i \in 1..MaxCmds :
        /\ c = Tokens[i]
        /\ \A j \in 1..(i - 1) : call[Tokens[j]].pc # "new"

\* From the call to the await of send_json: the connected check, the id, the
\* future and its entry in the map.
SendCommandBegin(c, w) ==
    /\ call[c].pc = "new"
    /\ NextToken(c)
    /\ IF ~Connected
       THEN /\ call' = [Finish(c, "ConnectionError", {}) EXCEPT ![c].wait = w]
            /\ UNCHANGED <<fut, pending>>
       ELSE /\ fut' = IF w THEN [fut EXCEPT ![c] = [state |-> "pending", value |-> {}]] ELSE fut
            /\ pending' = Register(c, w)
            /\ call' = [call EXCEPT ![c] = [@ EXCEPT !.pc = "sending", !.wait = w]]
    /\ UNCHANGED <<sessionVars, ownerVars, coordVars, listeners, listenTask, listenErr, wire, delivered>>

\* The socket this call holds still takes a frame.
CanWrite(c) == ~call[c].stale /\ linkUp

\* await self._ws.send_json(message): the frame is written, or the write raises
\* (a closed or lost socket), which send_command does not catch.
SendJson(c) ==
    /\ call[c].pc = "sending"
    /\ IF CanWrite(c)
       THEN /\ wire' = wire \cup {c}
            /\ call' = IF call[c].wait
                       THEN [call EXCEPT ![c].pc = "waiting"]
                       ELSE Finish(c, "None", {})
       ELSE /\ wire' = wire
            /\ call' = Finish(c, "TransportError", {})
    /\ UNCHANGED <<sessionVars, ownerVars, coordVars, listeners, pending, fut, listenTask,
                   listenErr, delivered>>

\* What `await asyncio.wait_for(future, ...)` gives once the future is done.
Awaited(f) ==
    CASE f.state = "result" -> [kind |-> "returned", value |-> f.value]
      [] f.state = "exception" -> [kind |-> "CommandError", value |-> f.value]
      [] OTHER -> [kind |-> "CancelledError", value |-> {}]

\* wait_for returns or raises what the future holds.
AwaitDone(c) ==
    /\ call[c].pc = "waiting"
    /\ FutureDone(fut[c])
    /\ call' = Finish(c, Awaited(fut[c]).kind, Awaited(fut[c]).value)
    /\ UNCHANGED <<sessionVars, ownerVars, coordVars, listeners, pending, fut, listenTask,
                   listenErr, wire, delivered>>

\* Mutant: the wait has no timeout.
NoTimeout(c) == FALSE /\ UNCHANGED vars

\* The timeout of wait_for elapses: wait_for cancels the future; the caller
\* runs again only at a later turn of the loop.
TimeoutFires(c) ==
    /\ call[c].pc = "waiting"
    /\ ~FutureDone(fut[c])
    /\ fut' = [fut EXCEPT ![c] = Cancel(@)]
    /\ call' = [call EXCEPT ![c].pc = "timedout"]
    /\ UNCHANGED <<sessionVars, ownerVars, coordVars, listeners, pending, listenTask,
                   listenErr, wire, delivered>>

\* Mutant: the entry of a timed-out command stays in the map.
PopNothing(c) == pending

\* Mutant: a timeout empties the map.
PopEverything(c) == {}

\* self._pending_commands.pop(command_id, None)
PopOnTimeout(c) == pending \ {c}

\* except asyncio.TimeoutError
TimeoutRaised(c) ==
    /\ call[c].pc = "timedout"
    /\ pending' = PopOnTimeout(c)
    /\ call' = Finish(c, "CommandError", CommandError("TIMEOUT", "timed out"))
    /\ UNCHANGED <<sessionVars, ownerVars, coordVars, listeners, fut, listenTask, listenErr,
                   wire, delivered>>

\* trigger_alert, clear_alert, clear_all_alerts: `return result or {}`
ResultOrEmpty(kind, value) == IF kind = "None" THEN {} ELSE value

---------------------------------------------------------------------------
\* _handle_message

\* Mutant: the future is set without asking whether it is done.
MayResolveAlways(f) == TRUE

\* `if not future.done()`
MayResolve(f) == ~FutureDone(f)

Handled(p, f, log, raised) == [pending |-> p, fut |-> f, delivered |-> log, raised |-> raised]

\* Mutant: the future is resolved with the envelope's result field.
HandleCommandResultUnwrapped(data, p, f, log) ==
    LET id == GetStr(data, "command_id", Falsy) IN
    IF id # Falsy /\ id \in p
    THEN LET r == IF ~FutureDone(f[id]) THEN SetResult(f[id], GetMap(data, "result"))
                  ELSE [ok |-> TRUE, f |-> f[id]]
         IN [pending |-> p \ {id}, fut |-> [f EXCEPT ![id] = r.f], delivered |-> log,
             raised |-> ~r.ok]
    ELSE [pending |-> p, fut |-> f, delivered |-> log, raised |-> FALSE]

\* The command_result branch.
HandleCommandResult(data, p, f, log) ==
    LET id == GetStr(data, "command_id", Falsy) IN
    IF id # Falsy /\ id \in p
    THEN LET r == IF MayResolve(f[id]) THEN SetResult(f[id], data)
                  ELSE [ok |-> TRUE, f |-> f[id]]
         IN Handled(p \ {id}, [f EXCEPT ![id] = r.f], log, ~r.ok)
    ELSE Handled(p, f, log, FALSE)

\* Mutant: the CommandError does not carry the envelope's code and message.
HandleErrorNoCode(data, p, f, log) ==
    LET id == GetStr(data, "command_id", Falsy)
        exc == CommandError("UNKNOWN", "Unknown error")
    IN
    IF id # Falsy /\ id \in p
    THEN LET r == IF ~FutureDone(f[id]) THEN SetException(f[id], exc)
                  ELSE [ok |-> TRUE, f |-> f[id]]
         IN [pending |-> p \ {id}, fut |-> [f EXCEPT ![id] = r.f], delivered |-> log,
             raised |-> ~r.ok]
    ELSE [pending |-> p, fut |-> f, delivered |-> log, raised |-> FALSE]

\* The error branch.
HandleError(data, p, f, log) ==
    LET id == GetStr(data, "command_id", Falsy)
        exc == CommandError(GetStr(data, "code", "UNKNOWN"),
                            GetStr(data, "message", "Unknown error"))
    IN
    IF id # Falsy /\ id \in p
    THEN LET r == IF MayResolve(f[id]) THEN SetException(f[id], exc)
                  ELSE [ok |-> TRUE, f |-> f[id]]
         IN Handled(p \ {id}, [f EXCEPT ![id] = r.f], log, ~r.ok)
    ELSE Handled(p, f, log, FALSE)

HandleMessage(frame, p, f, log, ls) ==
    IF frame.type = "command_result" THEN HandleCommandResult(frame.data, p, f, log)
    ELSE IF frame.type = "error" THEN HandleError(frame.data, p, f, log)
    ELSE LET n == Notify(ls, log, NoSnapshot, frame.type, frame.data)
         IN Handled(p, f, n.delivered, n.raised)

---------------------------------------------------------------------------
\* _listen, the read task

\* The text frames a server may send now: answers to commands it was sent, to
\* an id it was never sent, or with no id; and push events.
AnswerIds == wire \cup {ForeignId, Falsy}
InboundFrames ==
    {CommandResultFrame(id, r) : id \in AnswerIds, r \in Results}
    \cup {ErrorFrame(id, e.code, e.message) : id \in AnswerIds, e \in ErrorTexts}
    \cup {PushFrame(k) : k \in {k \in PushKinds : Len(delivered) < MaxEvents}}

\* Mutant: the flag is cleared but the listeners are not told.
ListenFinallySilent(ls, log, d) ==
    /\ connected' = FALSE
    /\ delivered' = log
    /\ listeners' = ls
    /\ coordData' = d
    /\ listenTask' = "done"

\* The finally clause of _listen, with the listeners, the log and the snapshot
\* as the loop left them.
ListenFinally(ls, log, d) ==
    LET n == Notify(ls, log, d, "disconnected", EmptyMap) IN
    /\ connected' = FALSE
    /\ delivered' = n.delivered
    /\ listeners' = n.listeners
    /\ coordData' = n.data
    /\ listenTask' = "done"

\* The task made by start_listening runs for the first time.
ListenStart ==
    /\ listenTask = "new"
    /\ listenTask' = IF ws = "None" THEN "done" ELSE "recv"
    /\ listenErr' = "none"
    /\ UNCHANGED <<sessionVars, ownerVars, listeners, pending, fut, call, wire, delivered,
                   coordVars>>

\* One text frame: msg.json() and _handle_message. An exception of the handler
\* that is no ValueError ends the loop (except Exception, then finally).
ListenText(frame) ==
    /\ listenTask = "recv"
    /\ linkUp
    /\ LET h == HandleMessage(frame, pending, fut, delivered, listeners)
           n == IF frame.type \in {"command_result", "error"}
                THEN [listeners |-> listeners, data |-> coordData]
                ELSE Notify(listeners, delivered, coordData, frame.type, frame.data)
       IN
       /\ pending' = h.pending
       /\ fut' = h.fut
       /\ IF h.raised
          THEN /\ listenErr' = IF frame.type \in {"command_result", "error"}
                                THEN "InvalidStateError" ELSE "Exception"
               /\ ListenFinally(n.listeners, h.delivered, n.data)
          ELSE /\ delivered' = h.delivered
               /\ listeners' = n.listeners
               /\ coordData' = n.data
               /\ UNCHANGED <<listenErr, connected, listenTask>>
    /\ UNCHANGED <<ws, wsClosed, linkUp, running, serverVersion, ownerVars,
                   call, wire, sup, shut>>

\* A text frame that is no JSON: msg.json() raises ValueError, which is logged.
ListenBadText ==
    /\ listenTask = "recv"
    /\ linkUp
    /\ UNCHANGED vars

\* Text frames that are JSON but no well-formed envelope: a value that is no
\* mapping, a command_result or error whose data is null, a push event whose
\* data is null.
MalformedKinds == {"non_mapping", "null_answer", "null_event"}

\* _handle_message raises AttributeError: data.get on a value that is no
\* mapping, event_data.get on None.
HandlerRaises(kind) == kind \in {"non_mapping", "null_answer"}

\* One such frame. The AttributeError is no ValueError: it leaves the loop
\* through `except Exception` and the finally clause. A null payload of a push
\* event is handed to the listeners as it is.
ListenMalformed(kind) ==
    /\ listenTask = "recv"
    /\ linkUp
    /\ kind \in MalformedKinds
    /\ IF HandlerRaises(kind)
       THEN /\ listenErr' = "AttributeError"
            /\ ListenFinally(listeners, delivered, coordData)
       ELSE /\ LET n == IF kind = "null_event"
                        THEN Notify(listeners, delivered, coordData,
                                    CHOOSE k \in PushKinds : TRUE, Null)
                        ELSE [listeners |-> listeners, delivered |-> delivered,
                              data |-> coordData]
               IN /\ delivered' = n.delivered
                  /\ listeners' = n.listeners
                  /\ coordData' = n.data
            /\ UNCHANGED <<listenErr, connected, listenTask>>
    /\ UNCHANGED <<ws, wsClosed, linkUp, running, serverVersion, ownerVars,
                   pending, fut, call, wire, sup, shut>>

\* receive() gets a close frame, the end of the stream or a socket error: it
\* closes the socket and hands the loop a CLOSE/CLOSED message (the iteration
\* stops) or an ERROR message (the loop breaks).
ListenReceivesEnd(how) ==
    /\ listenTask = "recv"
    /\ how \in {"got_close", "got_error"}
    /\ wsClosed' = TRUE
    /\ linkUp' = FALSE
    /\ listenTask' = how
    /\ UNCHANGED <<ws, connected, running, serverVersion, ownerVars,
                   listeners, pending, fut, listenErr, call, wire, delivered, coordVars>>

\* The loop is left: the finally clause runs and the task returns.
ListenExit ==
    /\ listenTask \in {"got_close", "got_error", "cancelled"}
    /\ ListenFinally(listeners, delivered, coordData)
    /\ UNCHANGED <<ws, wsClosed, linkUp, running, serverVersion, ownerVars,
                   pending, fut, listenErr, call, wire, sup, shut>>

\* The transport is lost.
LinkDrop ==
    /\ ws = "sock" /\ ~wsClosed /\ linkUp
    /\ linkUp' = FALSE
    /\ UNCHANGED <<ws, wsClosed, connected, running, serverVersion, ownerVars,
                   listeners, pending, fut, listenTask, listenErr, call, wire, delivered,
                   coordVars>>

---------------------------------------------------------------------------
\* The owner task, as the coordinator drives the session: async_setup
\* (connect, add_listener, start_listening), the reconnect() of its supervisor
\* loop while the link is down, and async_shutdown (the listener is removed,
\* then disconnect()).

\* Mutant: the new task reads from the socket before start_listening returns.
StartedTaskReading == "recv"

\* Mutant: start_listening makes a task whatever there is.
StartedTaskAlways == "new"

\* start_listening: a task is made unless one is still running.
StartedTask == IF listenTask \notin {"None", "done"} THEN listenTask ELSE "new"

\* add_listener(self._handle_event)
AddListener(ls) == Append(ls, TheListener)

\* self._remove_listener()
RemoveListener(ls) == RemoveCallback(ls, TheListener)

\* Where the owner is once disconnect() has returned: reconnect goes on to
\* connect(), which runs to its await of ws_connect.
Returned(op) == IF op = "reconnect" THEN "open" ELSE "idle"

\* Mutant: disconnect leaves the socket as it is.
ClosePartSkipped(op) == [ws |-> ws, closed |-> wsClosed, up |-> linkUp, ctl |-> Returned(op)]

\* disconnect, its last part: close the socket if it is open, then drop it.
ClosePart(op) ==
    IF ws # "None" /\ ~wsClosed
    THEN [ws |-> ws, closed |-> TRUE, up |-> FALSE, ctl |-> "close"]
    ELSE [ws |-> "None", closed |-> wsClosed, up |-> linkUp, ctl |-> Returned(op)]

\* The futures after disconnect has cancelled those in the map.
CancelPending == [c \in Cmds |-> IF c \in pending THEN Cancel(fut[c]) ELSE fut[c]]
\* Mutant: the map is not cleared.
KeepPending == pending

\* self._pending_commands.clear()
ClearPending == {}

\* The supervisor loop _maintain_connection runs: its task was made by a
\* successful async_setup and has not ended.
Supervised == sup = "alive"

\* disconnect(), up to its first await: called by async_shutdown after the
\* listener is removed, or as the first step of reconnect() when the supervisor
\* finds the link down.
DisconnectBegin(op) ==
    /\ ctl = "idle"
    /\ op \in {"shutdown", "reconnect"}
    /\ op = "reconnect" => Supervised /\ ~Connected
    /\ op = "shutdown" => shut = "none" \/ ~Supervised
    /\ listeners' = IF op = "shutdown" THEN RemoveListener(listeners) ELSE listeners
    /\ sup' = IF op = "shutdown" /\ Supervised THEN "done" ELSE sup
    /\ shut' = IF op = "shutdown" THEN "none" ELSE shut
    /\ running' = FALSE
    /\ connected' = FALSE
    /\ fut' = CancelPending
    /\ pending' = ClearPending
    /\ IF listenTask \in {"None", "done"}
       THEN /\ ws' = ClosePart(op).ws
            /\ wsClosed' = ClosePart(op).closed
            /\ linkUp' = ClosePart(op).up
            /\ ctl' = ClosePart(op).ctl
            /\ UNCHANGED listenTask
       ELSE /\ listenTask' = IF listenTask = "new" THEN "done" ELSE "cancelled"
            /\ ctl' = "join"
            /\ UNCHANGED <<ws, wsClosed, linkUp>>
    /\ ctlOp' = IF ctl' = "idle" THEN "none" ELSE op
    /\ ctlRes' = IF ctl' = "idle" THEN "ok" ELSE ctlRes
    /\ UNCHANGED <<serverVersion, listenErr, call, wire, delivered, coordData>>

\* `await self._listen_task` is over: the cancelled task has finished.
DisconnectJoined ==
    /\ ctl = "join"
    /\ listenTask = "done"
    /\ listenTask' = "None"
    /\ ws' = ClosePart(ctlOp).ws
    /\ wsClosed' = ClosePart(ctlOp).closed
    /\ linkUp' = ClosePart(ctlOp).up
    /\ ctl' = ClosePart(ctlOp).ctl
    /\ ctlOp' = IF ctl' = "idle" THEN "none" ELSE ctlOp
    /\ ctlRes' = IF ctl' = "idle" THEN "ok" ELSE ctlRes
    /\ UNCHANGED <<connected, running, serverVersion, listeners, pending, fut,
                   listenErr, call, wire, delivered, coordVars>>

\* `await self._ws.close()` is over.
DisconnectClosed ==
    /\ ctl = "close"
    /\ ws' = "None"
    /\ ctl' = Returned(ctlOp)
    /\ ctlOp' = IF ctl' = "idle" THEN "none" ELSE ctlOp
    /\ ctlRes' = IF ctl' = "idle" THEN "ok" ELSE ctlRes
    /\ UNCHANGED <<wsClosed, linkUp, connected, running, serverVersion, listeners,
                   pending, fut, listenTask, listenErr, call, wire, delivered, coordVars>>

\* Where a CancelledError raised in the supervisor task is caught and dropped:
\* at `await self._listen_task` in disconnect(), by the handler meant for the
\* read task's own cancellation.
CancelSwallowed(at) == at = "join"

\* async_shutdown while the supervisor task is inside reconnect(): the listener
\* is removed, the task is cancelled and awaited. The CancelledError is raised
\* where the task is suspended: it ends the task from ws.close(), ws_connect
\* and receive(), which then leave the session as it is.
ShutdownCancels ==
    /\ shut = "none"
    /\ Supervised
    /\ ctlOp = "reconnect"
    /\ ctl \in {"join", "close", "open", "handshake"}
    /\ listeners' = RemoveListener(listeners)
    /\ shut' = "joining"
    /\ IF CancelSwallowed(ctl)
       THEN UNCHANGED <<ctl, ctlOp, ctlRes, sup>>
       ELSE /\ ctl' = "idle"
            /\ ctlOp' = "none"
            /\ ctlRes' = "CancelledError"
            /\ sup' = "done"
    /\ UNCHANGED <<sessionVars, pending, fut, listenTask, listenErr, call, wire,
                   delivered, coordData>>

\* async_setup calls connect() on the new session.
SetupBegin ==
    /\ ctl = "idle"
    /\ ctlRes = "none"
    /\ ctl' = "open"
    /\ ctlOp' = "setup"
    /\ UNCHANGED <<sessionVars, ctlRes, listeners, pending, fut, listenTask, listenErr,
                   call, wire, delivered, coordVars>>

\* How connect() ends for the owner. After a success async_setup adds its
\* listener and starts the read task, and reconnect starts the read task; no
\* await lies in between. reconnect turns a LightStackConnectionError into None.
\* The state of the handshake payload becomes the snapshot, and async_setup
\* makes the supervisor task.
ConnectEnds(how, state) ==
    /\ ctl' = "idle"
    /\ ctlOp' = "none"
    /\ ctlRes' = IF ctlOp = "reconnect" /\ how = "ConnectionError" THEN "None" ELSE how
    /\ listenTask' = IF how = "ok" THEN StartedTask ELSE listenTask
    /\ listeners' = IF how = "ok" /\ ctlOp = "setup" THEN AddListener(listeners) ELSE listeners
    /\ coordData' = IF how = "ok" THEN StateFromDict(state) ELSE coordData
    /\ sup' = IF how = "ok" /\ ctlOp = "setup" THEN "alive" ELSE sup
    /\ UNCHANGED shut

\* ws_connect returns a socket, or fails or times out.
ConnectOpen(ok) ==
    /\ ctl = "open"
    /\ IF ok
       THEN /\ ws' = "sock"
            /\ wsClosed' = FALSE
            /\ linkUp' = TRUE
            /\ connected' = TRUE
            /\ running' = TRUE
            /\ ctl' = "handshake"
            /\ call' = [c \in Cmds |->
                          IF call[c].pc = "sending" THEN [call[c] EXCEPT !.stale = TRUE]
                          ELSE call[c]]
            /\ UNCHANGED <<ctlOp, ctlRes, listenTask, listeners, coordVars>>
       ELSE /\ connected' = FALSE
            /\ ConnectEnds("ConnectionError", EmptyMap)
            /\ UNCHANGED <<ws, wsClosed, linkUp, running, call>>
    /\ UNCHANGED <<serverVersion, pending, fut, listenErr, wire, delivered>>

FirstFrames == {"established", "other_type", "non_text", "closed", "timeout", "bad_json"}
ServerVersion == "1.2"

\* The first frame: connection_established with a state in its payload, or
\* anything else, or none in time.
ConnectHandshakeWith(first, state) ==
    /\ ctl = "handshake"
    /\ first \in FirstFrames
    /\ first \in {"established", "other_type", "non_text", "bad_json"} => linkUp
    /\ serverVersion' = IF first = "established" THEN ServerVersion ELSE serverVersion
    /\ wsClosed' = IF first = "closed" THEN TRUE ELSE wsClosed
    /\ linkUp' = IF first = "closed" THEN FALSE ELSE linkUp
    /\ connected' = IF first = "timeout" THEN FALSE ELSE connected
    /\ ConnectEnds(CASE first = "established" -> "ok"
                     [] first = "bad_json" -> "ValueError"
                     [] OTHER -> "ConnectionError",
                   state)
    /\ UNCHANGED <<ws, running, pending, fut, listenErr, call, wire, delivered>>

\* The handshake of a server with nothing to report: the state is {}.
ConnectHandshake(first) == ConnectHandshakeWith(first, EmptyMap)

---------------------------------------------------------------------------
Next ==
    \/ \E c \in Cmds, w \in WaitModes : SendCommandBegin(c, w)
    \/ \E c \in Cmds : SendJson(c)
    \/ \E c \in Cmds : AwaitDone(c)
    \/ \E c \in Cmds : TimeoutFires(c)
    \/ \E c \in Cmds : TimeoutRaised(c)
    \/ ListenStart
    \/ \E frame \in InboundFrames : ListenText(frame)
    \/ ListenBadText
    \/ \E kind \in MalformedKinds :
          (kind = "null_event" => Len(delivered) < MaxEvents) /\ ListenMalformed(kind)
    \/ \E how \in {"got_close", "got_error"} : ListenReceivesEnd(how)
    \/ ListenExit
    \/ LinkDrop
    \/ \E op \in {"shutdown", "reconnect"} :
          (op = "reconnect" => Len(delivered) < MaxEvents) /\ DisconnectBegin(op)
    \/ DisconnectJoined
    \/ DisconnectClosed
    \/ SetupBegin
    \/ \E ok \in BOOLEAN : ConnectOpen(ok)
    \/ \E first \in FirstFrames : ConnectHandshake(first)

Spec == Init /\ [][Next]_vars

---------------------------------------------------------------------------
\* The event loop resumes every caller that can go on: a write ends, a wait_for
\* whose future is done returns, a timeout elapses.
CallerStep(c) == SendJson(c) \/ AwaitDone(c) \/ TimeoutFires(c) \/ TimeoutRaised(c)

FairSpec == Spec /\ \A c \in Cmds : WF_vars(CallerStep(c))

---------------------------------------------------------------------------
\* The coordinator: the session as above without send_command calls, with the
\* payloads of the handshake and of the push events, the snapshot they are
\* reduced into, and async_shutdown at any time.

Door == [alert_key |-> "door", effective_priority |-> 1]
Smoke == [alert_key |-> "smoke", effective_priority |-> 2]

\* The state of a server on which the door alert is active.
DoorActive ==
    [is_all_clear |-> FALSE, current_alert |-> Door, active_count |-> 1,
     active_alerts |-> <<Door>>]

\* The state of a connection_established payload.
HandshakeStates ==
    {EmptyMap,
     [is_all_clear |-> TRUE, current_alert |-> Null, active_count |-> 0,
      active_alerts |-> <<>>],
     DoorActive}

\* Push events of the server, and one of a kind the client does not know.
CoordFrames ==
    {[type |-> "alert_triggered",
      data |-> [alert |-> Door, current_changed |-> TRUE, new_current |-> Door]],
     [type |-> "alert_triggered", data |-> [alert |-> Smoke, current_changed |-> FALSE]],
     [type |-> "alert_cleared", data |-> [alert |-> Door, new_current |-> Smoke]],
     [type |-> "alert_cleared", data |-> [alert |-> Door]],
     [type |-> "all_alerts_cleared", data |-> EmptyMap],
     [type |-> "current_alert_changed",
      data |-> [current |-> Smoke, is_all_clear |-> FALSE, active_count |-> 1]],
     [type |-> "server_notice", data |-> EmptyMap],
     [type |-> "server_notice", data |-> Null]}

CoordNext ==
    \/ SetupBegin
    \/ \E ok \in BOOLEAN : ConnectOpen(ok)
    \/ \E first \in FirstFrames, state \in HandshakeStates :
          ConnectHandshakeWith(first, state)
    \/ ListenStart
    \/ \E frame \in CoordFrames : Len(delivered) < MaxLog /\ ListenText(frame)
    \/ \E how \in {"got_close", "got_error"} : ListenReceivesEnd(how)
    \/ ListenExit
    \/ \E op \in {"shutdown", "reconnect"} :
          (op = "reconnect" => Len(delivered) < MaxLog) /\ DisconnectBegin(op)
    \/ DisconnectJoined
    \/ DisconnectClosed
    \/ ShutdownCancels

CoordSpec == Init /\ [][CoordNext]_vars

---------------------------------------------------------------------------
\* The coordinator with a transport that can be lost without a close frame,
\* and with the steps the event loop is bound to run: the supervisor task's
\* `if not self.websocket.connected: reconnect()` and what follows it, and the
\* read task's start and exit. The loop body holds no other statement: while
\* `connected` is true an iteration sleeps and does nothing.

SupervisorStep ==
    \/ Len(delivered) < MaxLog /\ DisconnectBegin("reconnect")
    \/ /\ ctlOp = "reconnect"
       /\ \/ DisconnectJoined
          \/ DisconnectClosed
          \/ \E ok \in BOOLEAN : ConnectOpen(ok)
          \/ \E first \in FirstFrames, state \in HandshakeStates :
                ConnectHandshakeWith(first, state)

ReadTaskStep == ListenStart \/ ListenExit

SupervisedNext ==
    \/ CoordNext
    \/ LinkDrop

SupervisedSpec ==
    Init /\ [][SupervisedNext]_vars /\ WF_vars(SupervisorStep) /\ WF_vars(ReadTaskStep)

\* async_shutdown after it has cancelled the supervisor task: once that task
\* has ended it calls disconnect() and runs it to its end.
ShutdownStep ==
    \/ shut = "joining" /\ DisconnectBegin("shutdown")
    \/ ctlOp = "shutdown" /\ (DisconnectJoined \/ DisconnectClosed)

ShutdownSpec == SupervisedSpec /\ WF_vars(ShutdownStep)

---------------------------------------------------------------------------
\* The dispatcher with several callbacks: a session that is set up and
\* receiving, on which add_listener was called for every callback, in any
\* order; the removers are called at any time, also from the callback itself.

\* The lists add_listener calls lead to.
ListenerLists ==
    {ls \in [1..Cardinality(Callbacks) -> Callbacks] :
        \A i, j \in DOMAIN ls : i # j => ls[i] # ls[j]}

DispatchInit ==
    /\ ws = "sock"
    /\ wsClosed = FALSE
    /\ linkUp = TRUE
    /\ connected = TRUE
    /\ running = TRUE
    /\ serverVersion = ServerVersion
    /\ listeners \in ListenerLists
    /\ pending = {}
    /\ fut = [c \in Cmds |-> NoFuture]
    /\ listenTask = "recv"
    /\ listenErr = "none"
    /\ call = [c \in Cmds |-> NewCall]
    /\ wire = {}
    /\ ctl = "idle"
    /\ ctlOp = "none"
    /\ ctlRes = "ok"
    /\ delivered = <<>>
    /\ coordData = StateFromDict(EmptyMap)
    /\ sup = "alive"
    /\ shut = "none"

\* remove_listener() of the callback l, called from outside a dispatch.
RemoverCalled(l) ==
    /\ l \in Callbacks
    /\ listeners' = RemoveCallback(listeners, l)
    /\ UNCHANGED <<sessionVars, ownerVars, pending, fut, listenTask, listenErr, call,
                   wire, delivered, coordData, sup, shut>>

DispatchFrames == {PushFrame(k) : k \in PushKinds} \cup {[type |-> "server_notice", data |-> Null]}

DispatchNext ==
    \/ \E l \in Callbacks : RemoverCalled(l)
    \/ \E frame \in DispatchFrames : Len(delivered) < MaxLog /\ ListenText(frame)
    \/ \E how \in {"got_close", "got_error"} : ListenReceivesEnd(how)
    \/ ListenExit

DispatchSpec == DispatchInit /\ [][DispatchNext]_vars

---------------------------------------------------------------------------
\* The reducers of the coordinator: a session that is set up and receiving,
\* whose snapshot is the one of the handshake, and the push events of a server
\* whose alert records are flat or carry a nested config.

\* A record with a name at the top level and in its config, whose config also
\* has fields of the identity group.
DoorRenamed ==
    [alert_key |-> "door", effective_priority |-> 2, is_active |-> TRUE,
     name |-> "top", led_color |-> "red",
     config |-> [name |-> "cfg", led_effect |-> "blink", alert_key |-> "other",
                 effective_priority |-> 5, default_priority |-> 1]]
\* A record whose presentation fields are in the config only.
SmokeConfigured ==
    [alert_key |-> "smoke", priority |-> "high",
     config |-> [name |-> "cfg", description |-> "kitchen", led_duration |-> "long"]]
\* A record with an empty config.
DoorPlain == [alert_key |-> "door", name |-> "top", led_brightness |-> "dim", config |-> EmptyMap]

AlertRecords == {Door, Smoke, DoorRenamed, SmokeConfigured, DoorPlain}

ReducerFrames ==
    {[type |-> "alert_triggered",
      data |-> [alert |-> a, current_changed |-> TRUE, new_current |-> a]] : a \in AlertRecords}
    \cup {[type |-> "alert_triggered", data |-> [alert |-> a, current_changed |-> FALSE]] :
              a \in AlertRecords}
    \cup {[type |-> "alert_triggered", data |-> [alert |-> a]] : a \in {Smoke}}
    \cup {[type |-> "alert_cleared", data |-> [alert |-> Door, new_current |-> Smoke]],
          [type |-> "alert_cleared", data |-> [alert |-> Door]],
          [type |-> "alert_cleared", data |-> [alert |-> Smoke, new_current |-> Null]],
          [type |-> "all_alerts_cleared", data |-> EmptyMap],
          [type |-> "current_alert_changed",
           data |-> [current |-> Smoke, is_all_clear |-> FALSE, active_count |-> 1]],
          [type |-> "current_alert_changed",
           data |-> [current |-> Null, is_all_clear |-> TRUE, active_count |-> 0]],
          [type |-> "server_notice", data |-> EmptyMap],
          [type |-> "server_notice", data |-> Null]}
    \cup {[type |-> "reconnected", data |-> [state |-> p]] : p \in HandshakeStates}

ReducerInit ==
    /\ ws = "sock"
    /\ wsClosed = FALSE
    /\ linkUp = TRUE
    /\ connected = TRUE
    /\ running = TRUE
    /\ serverVersion = ServerVersion
    /\ listeners = <<TheListener>>
    /\ pending = {}
    /\ fut = [c \in Cmds |-> NoFuture]
    /\ listenTask = "recv"
    /\ listenErr = "none"
    /\ call = [c \in Cmds |-> NewCall]
    /\ wire = {}
    /\ ctl = "idle"
    /\ ctlOp = "none"
    /\ ctlRes = "ok"
    /\ delivered = <<>>
    /\ coordData \in {StateFromDict(p) : p \in HandshakeStates}
    /\ sup = "alive"
    /\ shut = "none"

ReducerNext ==
    \/ \E frame \in ReducerFrames : Len(delivered) < MaxLog /\ ListenText(frame)
    \/ \E how \in {"got_close", "got_error"} : ListenReceivesEnd(how)
    \/ ListenExit

ReducerSpec == ReducerInit /\ [][ReducerNext]_vars

---------------------------------------------------------------------------
\* Properties

CommandFrames == {f \in InboundFrames : f.type \in {"command_result", "error"}}
FrameId(frame) == GetStr(frame.data, "command_id", Falsy)
Matches(frame) == FrameId(frame) # Falsy /\ FrameId(frame) \in pending

\* C1: a command whose frame was transmitted and whose waiter is not yet
\* completed has its entry in the pending map, so no answer can come too early
\* to find it.
C1_PendingBeforeTransmit ==
    \A c \in Cmds :
        (c \in wire /\ call[c].wait /\ ~FutureDone(fut[c])) => c \in pending

\* C1 witness: a transmitted command waits with its entry in the map while the
\* read loop is receiving.
C1_Witness ==
    \E c \in Cmds :
        /\ c \in wire /\ c \in pending
        /\ call[c].pc = "waiting" /\ fut[c].state = "pending"
        /\ listenTask = "recv" /\ linkUp

\* C2: a waiter is completed at most once. The read loop never hits
\* InvalidStateError, a completed future never changes again, a command_result
\* or error that finds the future not yet completed completes it and removes
\* the entry, and one whose id has no entry (any later one) changes nothing.
C2_ResolvedAtMostOnce ==
    /\ [](listenErr # "InvalidStateError")
    /\ [][/\ \A c \in Cmds : FutureDone(fut[c]) => fut'[c] = fut[c]
          /\ \A frame \in CommandFrames :
                ListenText(frame) =>
                    IF Matches(frame)
                    THEN /\ FrameId(frame) \notin pending'
                         /\ FutureDone(fut'[FrameId(frame)])
                         /\ listenTask' = "recv"
                    ELSE UNCHANGED vars]_vars

\* C2 witness: a command's waiter has been resolved and its entry removed
\* while the read loop keeps receiving, so a second answer can arrive.
C2_Witness ==
    \E c \in Cmds :
        /\ fut[c].state \in {"result", "exception"}
        /\ c \notin pending /\ c \in wire
        /\ listenTask = "recv" /\ linkUp

\* C3 (as claimed): the value returned to the caller is the result mapping R.
C3_ReturnsResultItself ==
    \A c \in Cmds :
        call[c].kind = "returned" => ResultOrEmpty(call[c].kind, call[c].value) \in Results

\* C3 (amended): the value returned to the caller of send_command, and passed
\* on unchanged by trigger_alert / clear_alert / clear_all_alerts, is the data
\* mapping of the command_result envelope: its command_id is the command's id
\* and its result field is R.
C3_ReturnsEnvelopeData ==
    /\ [](\A c \in Cmds :
            call[c].kind = "returned" =>
                /\ GetStr(call[c].value, "command_id", Falsy) = c
                /\ GetMap(call[c].value, "result") \in Results
                /\ ResultOrEmpty(call[c].kind, call[c].value) = call[c].value)
    /\ [][\A frame \in CommandFrames :
            (ListenText(frame) /\ frame.type = "command_result" /\ Matches(frame)
                /\ ~FutureDone(fut[FrameId(frame)]))
            => /\ fut'[FrameId(frame)] = [state |-> "result", value |-> frame.data]
               /\ Awaited(fut'[FrameId(frame)]).value = frame.data]_vars

\* C3 witness: a call has returned the answer of the server.
C3_Witness == \E c \in Cmds : call[c].pc = "done" /\ call[c].kind = "returned"

OtherFutures(c) == \A d \in Cmds \ {c} : fut'[d] = fut[d]

\* C4: an error envelope whose id is pending fails that command's waiter with
\* CommandError(code, message) and removes its entry; one without an id or
\* with an id that is not pending changes nothing. Neither is handed to the
\* listeners, neither ends the read loop.
C4_ErrorEnvelope ==
    [][\A frame \in CommandFrames :
         (ListenText(frame) /\ frame.type = "error") =>
            /\ delivered' = delivered
            /\ listenTask' = "recv" /\ connected' = connected
            /\ IF Matches(frame)
               THEN /\ pending' = pending \ {FrameId(frame)}
                    /\ ~FutureDone(fut[FrameId(frame)]) =>
                          /\ fut'[FrameId(frame)].state = "exception"
                          /\ GetStr(fut'[FrameId(frame)].value, "code", Falsy) =
                                GetStr(frame.data, "code", "UNKNOWN")
                          /\ GetStr(fut'[FrameId(frame)].value, "message", Falsy) =
                                GetStr(frame.data, "message", "Unknown error")
                    /\ OtherFutures(FrameId(frame))
               ELSE pending' = pending /\ fut' = fut]_vars

\* C4 witness: a call was failed with the CommandError of an error envelope
\* while a listener was registered and the read loop went on.
C4_Witness ==
    \E c \in Cmds :
        /\ call[c].kind = "CommandError"
        /\ GetStr(call[c].value, "code", Falsy) = "ALERT_NOT_FOUND"
        /\ listeners # <<>> /\ listenTask = "recv"

IsTimeout(c) == call[c].kind = "CommandError" /\ GetStr(call[c].value, "code", Falsy) = "TIMEOUT"

\* C5: a call whose timeout elapsed fails with CommandError TIMEOUT, and from
\* then on its id is not in the pending map.
C5_Timeout ==
    /\ [](\A c \in Cmds : IsTimeout(c) => c \notin pending)
    /\ [][\A c \in Cmds :
            (call[c].pc = "timedout" /\ call'[c].pc # "timedout") =>
                /\ call'[c].pc = "done"
                /\ call'[c].kind = "CommandError"
                /\ GetStr(call'[c].value, "code", Falsy) = "TIMEOUT"
                /\ c \notin pending']_vars

\* C5 witness: a call has timed out while the read loop still receives, so a
\* late answer can come.
C5_Witness == \E c \in Cmds : IsTimeout(c) /\ listenTask = "recv" /\ linkUp

\* C6: send_command on a link that is not established fails at once with
\* ConnectionError: nothing is written, no entry and no future are made, and
\* nothing of the session changes (no reconnect).
C6_RejectedWhenNotConnected ==
    /\ [](\A c \in Cmds :
            call[c].kind = "ConnectionError" =>
                c \notin wire /\ c \notin pending /\ fut[c].state = "none")
    /\ [][\A c \in Cmds :
            (call[c].pc = "new" /\ call'[c].pc # "new"
                /\ ~(connected /\ ws # "None" /\ ~wsClosed)) =>
                /\ call'[c].pc = "done" /\ call'[c].kind = "ConnectionError"
                /\ UNCHANGED <<sessionVars, ownerVars, listeners, pending, fut,
                               listenTask, listenErr, wire, delivered>>]_vars

\* C6 witness: a call was rejected while the connected flag was still set but
\* the socket was already closed.
C6_Witness ==
    \E c \in Cmds :
        call[c].kind = "ConnectionError" /\ connected /\ ws # "None" /\ wsClosed

\* A step in which command c fails: the server's error for it, or its timeout.
CommandFails(c) ==
    \/ fut[c].state = "pending" /\ fut'[c].state = "exception"
    \/ call[c].pc = "waiting" /\ call'[c].pc = "timedout"
    \/ call[c].pc = "timedout" /\ call'[c].pc = "done"

\* C7: the failure of one command leaves every other command's entry, waiter
\* and call as they were, and leaves the link as it was.
C7_FailureIsLocal ==
    [][\A c \in Cmds :
         CommandFails(c) =>
            /\ \A d \in Cmds \ {c} :
                  /\ fut'[d] = fut[d]
                  /\ call'[d] = call[d]
                  /\ (d \in pending') = (d \in pending)
            /\ UNCHANGED <<sessionVars, listenTask, listenErr, ownerVars>>]_vars

\* C7 witness: one command has failed while another is still waiting on an
\* established link.
C7_Witness ==
    \E c, d \in Cmds :
        /\ c # d
        /\ call[c].kind = "CommandError"
        /\ call[d].pc = "waiting" /\ d \in pending /\ fut[d].state = "pending"
        /\ Connected /\ listenTask = "recv"

\* C8: every call that awaits a result finishes, and one whose frame was
\* written ends with the result, a CommandError or a cancellation.
C8_EveryCallFinishes ==
    /\ [](\A c \in Cmds :
            (call[c].pc = "done" /\ call[c].wait /\ c \in wire) =>
                call[c].kind \in {"returned", "CommandError", "CancelledError"})
    /\ \A c \in Cmds :
          (call[c].pc \in {"sending", "waiting", "timedout"}) ~> (call[c].pc = "done")

\* C8 witness: a call that was in flight when the session was torn down has
\* ended with the cancellation.
C8_Witness ==
    \E c \in Cmds : call[c].pc = "done" /\ call[c].kind = "CancelledError" /\ c \in wire

\* A step in which disconnect() returns, to async_shutdown or into reconnect.
DisconnectReturns ==
    /\ \/ \E op \in {"shutdown", "reconnect"} : DisconnectBegin(op)
       \/ DisconnectJoined
       \/ DisconnectClosed
    /\ ctl' \in {"idle", "open"}

\* The session as disconnect() leaves it.
TornDown ==
    /\ ws = "None" /\ ~linkUp
    /\ ~connected /\ ~running
    /\ pending = {}
    /\ listenTask \in {"None", "done"}

\* C9: when disconnect() returns the link is not connected, the read task has
\* ended, the socket is closed and dropped and the map is empty; every command
\* that was in the map has its waiter cancelled; and disconnect() on a session
\* that is already torn down, or never connected, raises nothing and changes
\* nothing.
C9_Disconnect ==
    [][/\ DisconnectReturns => TornDown' /\ (ctl' = "idle" => ctlRes' = "ok")
       /\ \A op \in {"shutdown", "reconnect"} :
             DisconnectBegin(op) => \A c \in pending : fut'[c].state = "cancelled"
       /\ (DisconnectBegin("shutdown") /\ TornDown) =>
             /\ UNCHANGED <<sessionVars, pending, fut, listenTask, listenErr, call,
                            wire, delivered>>
             /\ ctl' = "idle" /\ ctlRes' = "ok"]_vars

\* C9 witness: disconnect() has returned after cancelling the waiter of a call
\* that is still suspended and closing the socket.
C9_Witness ==
    /\ ctl = "idle" /\ ctlRes = "ok"
    /\ TornDown /\ wsClosed
    /\ \E c \in Cmds : call[c].pc = "waiting" /\ fut[c].state = "cancelled"

\* C10: when the read loop is left after a socket error, a close frame or the
\* end of the stream, the task ends in one step that clears the connected flag
\* and calls every listener with "disconnected"; the pending map and the
\* waiters are left as they are.
C10_ReadLoopEnd ==
    [][(listenTask \in {"got_close", "got_error"} /\ listenTask' = "done") =>
          /\ ~connected'
          /\ Len(delivered') = Len(delivered) + Len(listeners)
          /\ \A i \in 1..Len(listeners) :
                delivered'[Len(delivered) + i] =
                    [listener |-> listeners[i], type |-> "disconnected"]
          /\ pending' = pending
          /\ fut' = fut]_vars

\* C10 witness: the read task has ended on its own, the listener was told, and
\* a command is still pending with its waiter not completed.
C10_Witness ==
    /\ listenTask = "done" /\ ~connected
    /\ Len(delivered) > 0
    /\ delivered[Len(delivered)] = [listener |-> TheListener, type |-> "disconnected"]
    /\ \E c \in pending : fut[c].state = "pending"

\* How the owner sees a connect() that raised LightStackConnectionError:
\* async_setup catches it as such, reconnect turns it into None.
ConnectionErrorSeen == {"ConnectionError", "None"}

\* C11: connect() returns the initial state when the first frame is
\* connection_established and fails with LightStackConnectionError on every
\* other first frame (another type, a non-text frame, text that is not JSON)
\* and when no frame comes within the handshake timeout.
C11_HandshakeOutcome ==
    [][\A first \in FirstFrames :
          ConnectHandshake(first) =>
              IF first = "established" THEN ctlRes' = "ok"
              ELSE ctlRes' \in ConnectionErrorSeen]_vars

\* C12: a malformed text frame (no JSON, or JSON that is no well-formed
\* envelope) is dropped: the read task keeps receiving, the connected flag
\* and the socket stay as they are, no listener is told "disconnected".
C12_MalformedDropped ==
    [][(ListenBadText \/ \E kind \in MalformedKinds : ListenMalformed(kind)) =>
          /\ listenTask' = "recv"
          /\ UNCHANGED <<sessionVars, pending, fut>>
          /\ \A i \in (Len(delivered) + 1)..Len(delivered') :
                delivered'[i].type # "disconnected"]_vars

\* C13: while the read loop runs and the coordinator's listener is registered,
\* every push frame it receives is, in the step of its receipt, handed to the
\* listener once, after everything handed over before, and reduced once into
\* the snapshot as it is then; the loop goes on to the next frame.
C13_EventsInOrder ==
    [][\A frame \in CoordFrames :
          (ListenText(frame) /\ listeners = <<TheListener>>) =>
              /\ delivered' = Append(delivered, [listener |-> TheListener,
                                                 type |-> frame.type])
              /\ coordData' = HandleEvent(coordData, frame.type, frame.data)
              /\ listenTask' = "recv"]_vars

\* C13 witness: on the empty snapshot alert_triggered for the door, then
\* alert_cleared for it with smoke as the new current alert, were reduced in
\* that order (the other order leaves the door in the list).
C13_Witness ==
    /\ Len(delivered) = 2
    /\ delivered[1] = [listener |-> TheListener, type |-> "alert_triggered"]
    /\ delivered[2] = [listener |-> TheListener, type |-> "alert_cleared"]
    /\ coordData = LightStackState(FALSE, AlertFromDict(Smoke), 0, <<>>)
    /\ listenTask = "recv"

\* The callback is in the list.
Registered(l) == \E i \in 1..Len(listeners) : listeners[i] = l
\* The callback is called in this step.
Received(l) == \E i \in (Len(delivered) + 1)..Len(delivered') : delivered'[i].listener = l
\* A step of the read loop that dispatches a push event.
DispatchStep == \E frame \in DispatchFrames : ListenText(frame)

\* C14: when a callback raises during a dispatch, every other callback that is
\* registered then is still called with the event, and the read loop and the
\* link are left as they are.
C14_RaiseIsolated ==
    [][(DispatchStep /\ Received("raiser")) =>
          /\ \A l \in Callbacks : Registered(l) => Received(l)
          /\ listenTask' = "recv"
          /\ UNCHANGED <<sessionVars, listenErr>>]_vars

\* C15: a callback may call its own remover while it is being called, and a
\* remover may be called again: nothing raises, every callback that was
\* registered when the dispatch began is called with the event, and a remover
\* called for a callback that is no longer listed removes nothing.
C15_UnsubscribeSafe ==
    [][/\ (DispatchStep /\ Registered("quitter")) =>
              /\ \A l \in Callbacks : Registered(l) => Received(l)
              /\ listenTask' = "recv"
              /\ listenErr' = listenErr
       /\ \A l \in Callbacks :
              (RemoverCalled(l) /\ ~Registered(l)) => listeners' = listeners]_vars

\* A connect attempt of the supervisor ends with a LightStackConnectionError,
\* which reconnect() turns into None.
AttemptFails == ctlOp = "reconnect" /\ ctl' = "idle" /\ ctlRes' = "None"

\* C16: whenever a connect attempt of the supervisor fails with a
\* ConnectionError, whatever the cause, the link is Disconnected afterwards, so
\* that the supervisor's next iteration makes another attempt.
C16_FailedAttemptRetried == [][AttemptFails => ~Connected']_vars

\* C17: while the link is Connected the supervisor pings after every sleep, and
\* a ping that gets no reply makes the link Disconnected: once the transport
\* under a supervised Connected link is lost, the link becomes Disconnected
\* (or the session is shut down).
C17_DeadLinkDetected ==
    (Supervised /\ Connected /\ ~linkUp) ~> (~Connected \/ ~Supervised)

\* C18: a reconnect cycle of the supervisor calls connect() only after the old
\* socket is closed and dropped, the old read task is gone and the map is
\* empty; when the handshake succeeds the link is Connected, a new read task is
\* made, and the snapshot is the state of the new handshake payload, whatever
\* it was before.
C18_ReconnectFresh ==
    /\ [][\A ok \in BOOLEAN :
             (ctlOp = "reconnect" /\ ConnectOpen(ok)) =>
                 /\ ws = "None"
                 /\ listenTask \in {"None", "done"}
                 /\ pending = {}
                 /\ ~connected /\ ~running]_vars
    /\ [][\A state \in HandshakeStates :
             (ctlOp = "reconnect" /\ ConnectHandshakeWith("established", state)) =>
                 /\ Connected'
                 /\ listenTask' = "new"
                 /\ coordData' = StateFromDict(state)]_vars

\* The link was lost, the coordinator was told, and a reconnect brought a new
\* read task and the snapshot of a server on which the door alert is active.
C18_Witness ==
    /\ Supervised /\ Connected /\ listenTask = "new"
    /\ \E i \in 1..Len(delivered) : delivered[i].type = "disconnected"
    /\ coordData = StateFromDict(DoorActive)

\* C19: once async_shutdown has cancelled the supervisor task, wherever the
\* task was suspended, the task makes no further connect attempt and sets no
\* further snapshot.
C19_CancelObserved ==
    [][shut = "joining" =>
          /\ ~(\E ok \in BOOLEAN : ConnectOpen(ok))
          /\ coordData' = coordData]_vars

\* C20: in every snapshot, the one of the handshake and those the push events
\* are reduced into, is_all_clear is true exactly when there is no current
\* alert.
C20_AllClearIffNoCurrent ==
    coordData # NoSnapshot =>
        (coordData.is_all_clear <=> coordData.current_alert = Null)

\* C21: in every snapshot, the one of the handshake and those the push events
\* are reduced into, active_count is the length of active_alerts.
C21_CountIsLength == coordData.active_count = Len(coordData.active_alerts)

\* No two entries of the list have the same alert_key.
UniqueKeys(alerts) ==
    \A i, j \in 1..Len(alerts) : i # j => alerts[i].alert_key # alerts[j].alert_key
\* The positions of the key in the list.
KeyAt(alerts, key) == {i \in 1..Len(alerts) : alerts[i].alert_key = key}
\* The read loop reduces this frame.
Reduces(frame, kind) == frame.type = kind /\ ListenText(frame)

\* C22: the keys of active_alerts stay unique; an alert_triggered for a key in
\* the list puts the alert in place of that entry, so that the list keeps its
\* length and the key is there once, and one for a new key adds one entry.
C22_KeysUnique ==
    /\ [](UniqueKeys(coordData.active_alerts))
    /\ [][\A frame \in ReducerFrames :
             Reduces(frame, "alert_triggered") =>
                LET old == coordData.active_alerts
                    new == coordData'.active_alerts
                    key == frame.data.alert.alert_key
                IN /\ Cardinality(KeyAt(new, key)) = 1
                   /\ KeyAt(old, key) # {} =>
                         /\ Len(new) = Len(old)
                         /\ KeyAt(new, key) = KeyAt(old, key)
                   /\ KeyAt(old, key) = {} => Len(new) = Len(old) + 1]_vars

\* Three alert_triggered events were reduced and two alerts are listed: one of
\* the events found its key in the list.
C22_Witness ==
    /\ Len(delivered) = 3
    /\ \A i \in 1..3 : delivered[i].type = "alert_triggered"
    /\ Len(coordData.active_alerts) = 2
    /\ coordData.active_alerts[1] = AlertFromDict(DoorRenamed)
    /\ coordData.active_alerts[2].alert_key = "smoke"

\* C23: after an alert_triggered event the triggered alert is in active_alerts
\* under its key and the entries of the other keys are where they were,
\* is_all_clear is false, active_count is the length of the new list, and
\* current_alert is the payload's new_current if the payload says
\* current_changed, else the one of the snapshot before.
C23_AlertTriggered ==
    [][\A frame \in ReducerFrames :
          Reduces(frame, "alert_triggered") =>
             LET ev == frame.data
                 alert == AlertFromDict(ev.alert)
                 old == coordData.active_alerts
                 new == coordData'.active_alerts
             IN /\ \E i \in 1..Len(new) : new[i] = alert
                /\ \A i \in 1..Len(old) :
                      old[i].alert_key # alert.alert_key => new[i] = old[i]
                /\ Len(new) \in {Len(old), Len(old) + 1}
                /\ coordData'.is_all_clear = FALSE
                /\ coordData'.active_count = Len(new)
                /\ coordData'.current_alert =
                      IF Has(ev, "current_changed") /\ ev.current_changed
                      THEN AlertFromDict(ev.new_current)
                      ELSE coordData.current_alert]_vars

\* The one event {alert: smoke, current_changed: true, new_current: smoke} was
\* reduced on the empty snapshot.
C23_Witness ==
    /\ Len(delivered) = 1
    /\ delivered[1].type = "alert_triggered"
    /\ coordData = LightStackState(FALSE, AlertFromDict(Smoke), 1, <<AlertFromDict(Smoke)>>)

\* The entries of the list whose key is not the given one, in their order,
\* are the second list: both lists are walked from the left.
RECURSIVE KeptInOrder(_, _, _)
KeptInOrder(old, new, key) ==
    IF old = <<>> THEN new = <<>>
    ELSE IF Head(old).alert_key = key THEN KeptInOrder(Tail(old), new, key)
    ELSE new # <<>> /\ Head(new) = Head(old) /\ KeptInOrder(Tail(old), Tail(new), key)

\* C24: after an alert_cleared event the named key is not in active_alerts and
\* the other entries are kept in their order, current_alert is the payload's
\* new_current, none if the payload has none, is_all_clear is true exactly when
\* that is none, and active_count is the length of the new list.
C24_AlertCleared ==
    [][\A frame \in ReducerFrames :
          Reduces(frame, "alert_cleared") =>
             LET ev == frame.data
                 key == ev.alert.alert_key
                 new == coordData'.active_alerts
             IN /\ KeyAt(new, key) = {}
                /\ KeptInOrder(coordData.active_alerts, new, key)
                /\ coordData'.current_alert =
                      IF Has(ev, "new_current") /\ ev.new_current # Null
                      THEN AlertFromDict(ev.new_current)
                      ELSE Null
                /\ coordData'.is_all_clear = (coordData'.current_alert = Null)
                /\ coordData'.active_count = Len(new)]_vars

\* The event reduced last is an alert_cleared naming door with smoke as
\* new_current: smoke is listed and is current.
C24_Witness ==
    /\ Len(delivered) >= 2
    /\ delivered[Len(delivered)].type = "alert_cleared"
    /\ coordData = LightStackState(FALSE, AlertFromDict(Smoke), 1, <<AlertFromDict(Smoke)>>)

\* C25: after a current_alert_changed event current_alert, is_all_clear and
\* active_count are the payload's, and active_alerts is the list of the
\* snapshot before.
C25_CurrentAlertChanged ==
    [][\A frame \in ReducerFrames :
          Reduces(frame, "current_alert_changed") =>
             LET ev == frame.data IN
             /\ coordData'.current_alert =
                   IF ev.current = Null THEN Null ELSE AlertFromDict(ev.current)
             /\ coordData'.is_all_clear = ev.is_all_clear
             /\ coordData'.active_count = ev.active_count
             /\ coordData'.active_alerts = coordData.active_alerts]_vars

\* The event {current: smoke, is_all_clear: false, active_count: 1} was reduced
\* on a snapshot with no alert listed.
C25_Witness ==
    /\ Len(delivered) >= 1
    /\ delivered[Len(delivered)].type = "current_alert_changed"
    /\ coordData = LightStackState(FALSE, AlertFromDict(Smoke), 1, <<>>)

\* C26: after an all_alerts_cleared event, whatever the snapshot before, the
\* snapshot is the empty one: all clear, no current alert, count 0, no alert
\* listed; so it is after a second such event.
C26_AllAlertsCleared ==
    [][\A frame \in ReducerFrames :
          Reduces(frame, "all_alerts_cleared") =>
             /\ coordData'.is_all_clear = TRUE
             /\ coordData'.current_alert = Null
             /\ coordData'.active_count = 0
             /\ coordData'.active_alerts = <<>>
             /\ DOMAIN coordData' =
                   {"is_all_clear", "current_alert", "active_count", "active_alerts"}]_vars

\* An alert was triggered, then all_alerts_cleared was reduced twice in a row.
C26_Witness ==
    /\ Len(delivered) = 3
    /\ delivered[1].type = "alert_triggered"
    /\ delivered[2].type = "all_alerts_cleared"
    /\ delivered[3].type = "all_alerts_cleared"
    /\ coordData = LightStackState(TRUE, Null, 0, <<>>)

\* C27: for every handshake state P, a reconnected event carrying P gives the
\* snapshot built from P, whatever was reduced in between, all_alerts_cleared
\* included; the explicit all-clear payload gives is_all_clear = TRUE, and the
\* payload with the door alert gives that alert as current and as the one
\* listed.
C27_RoundTrip ==
    [][\A p \in HandshakeStates :
          Reduces([type |-> "reconnected", data |-> [state |-> p]], "reconnected") =>
             /\ coordData' = StateFromDict(p)
             /\ (Has(p, "is_all_clear") /\ p.is_all_clear) => coordData'.is_all_clear = TRUE
             /\ p = DoorActive =>
                   /\ coordData'.is_all_clear = FALSE
                   /\ coordData'.current_alert.alert_key = "door"
                   /\ coordData'.active_count = 1
                   /\ Len(coordData'.active_alerts) = 1
                   /\ coordData'.active_alerts[1].alert_key = "door"]_vars

\* all_alerts_cleared was reduced, then a reconnected event with the state of
\* a server on which the door alert is active.
C27_Witness ==
    /\ Len(delivered) = 2
    /\ delivered[1].type = "all_alerts_cleared"
    /\ delivered[2].type = "reconnected"
    /\ coordData = StateFromDict(DoorActive)

\* The events handed to the listeners in this step.
NewEvents == {delivered'[i].type : i \in (Len(delivered) + 1)..Len(delivered')}

\* C28: an event of a kind without a reducer, the "disconnected" one of the
\* read loop and kinds the client does not know included, leaves the snapshot
\* as it is and raises nothing; and while the link is Disconnected the
\* snapshot stays the one it was when the link was lost.
C28_OtherKindsNoOp ==
    /\ [][(NewEvents # {} /\ NewEvents \cap ReducedKinds = {}) =>
             /\ coordData' = coordData
             /\ listenErr' = listenErr]_vars
    /\ [][~Connected => coordData' = coordData]_vars

\* An alert is listed, an event of an unknown kind was dropped, the link is
\* lost and the coordinator was told.
C28_Witness ==
    /\ ~Connected
    /\ coordData # NoSnapshot
    /\ coordData.active_alerts # <<>>
    /\ \E i \in 1..Len(delivered) : delivered[i].type = "server_notice"
    /\ delivered[Len(delivered)].type = "disconnected"

\* The fields of LightStackAlert read from the top level only, and those read
\* with get_field; the defaults of the dataclass fields.
IdentityFields == {"alert_key", "is_active", "effective_priority", "priority", "last_triggered_at"}
PresentationFields == {"name", "description", "default_priority", "led_color", "led_effect",
                       "led_brightness", "led_duration"}
FieldDefaults ==
    [alert_key |-> "", is_active |-> FALSE, effective_priority |-> 3, priority |-> NoneValue,
     last_triggered_at |-> NoneValue, name |-> NoneValue, description |-> NoneValue,
     default_priority |-> 3, led_color |-> NoneValue, led_effect |-> NoneValue,
     led_brightness |-> NoneValue, led_duration |-> NoneValue]
\* The nested config of a record, {} if it has none.
ConfigOf(a) == IF Has(a, "config") /\ a.config # Null THEN a.config ELSE EmptyMap
\* The entry the step has put into active_alerts for the record.
Stored(a) ==
    LET new == coordData'.active_alerts
    IN new[CHOOSE i \in 1..Len(new) : new[i].alert_key = Get(a, "alert_key", "")]

\* C29, as stated: the identity fields come from the top level, and a
\* presentation field comes from the nested config only if the top level
\* omits it.
C29_TopLevelWins ==
    [][\A frame \in ReducerFrames :
          Reduces(frame, "alert_triggered") =>
             LET a == frame.data.alert IN
             /\ \A f \in IdentityFields : Stored(a)[f] = Get(a, f, FieldDefaults[f])
             /\ \A f \in PresentationFields :
                   Stored(a)[f] = IF Has(a, f) THEN a[f]
                                  ELSE Get(ConfigOf(a), f, FieldDefaults[f])]_vars

\* C29, amended: the identity fields come from the top level, and a
\* presentation field comes from the nested config whenever the config has it,
\* and from the top level only if the config omits it.
C29_ConfigWins ==
    [][\A frame \in ReducerFrames :
          Reduces(frame, "alert_triggered") =>
             LET a == frame.data.alert IN
             /\ \A f \in IdentityFields : Stored(a)[f] = Get(a, f, FieldDefaults[f])
             /\ \A f \in PresentationFields :
                   Stored(a)[f] = IF Has(ConfigOf(a), f) THEN ConfigOf(a)[f]
                                  ELSE Get(a, f, FieldDefaults[f])]_vars

\* The record with a name at the top level and another in its config was
\* reduced: the key and the priority are the top-level ones, the name is the
\* config's.
C29_Witness ==
    \E i \in 1..Len(coordData.active_alerts) :
       LET e == coordData.active_alerts[i] IN
       /\ e.alert_key = "door" /\ e.effective_priority = 2 /\ e.is_active
       /\ e.name = "cfg" /\ e.led_color = "red" /\ e.led_effect = "blink"

\* C30: async_shutdown terminates in every interleaving with the supervisor
\* and the read loop: once it has cancelled the supervisor task and waits for
\* it, the task ends and async_shutdown goes on to disconnect() and returns,
\* with both tasks finished, the listener removed, the map empty and the
\* socket dropped.
C30_ShutdownTerminates ==
    (shut = "joining") ~>
        /\ shut = "none" /\ ctl = "idle"
        /\ ~Supervised
        /\ listenTask \in {"None", "done"}
        /\ listeners = <<>>
        /\ pending = {}
        /\ ws = "None"

---------------------------------------------------------------------------
\* The session kept up by its own loop, LightStackWebSocket.maintain_connection:
\* here the supervisor task runs that loop on a session that was connected and
\* is receiving, and the owner never shuts the session down. Each pass tests
\* `self._running`, reconnects if the link is down, sleeps, and pings.

\* The loop is inside `await self.ping()`: its send_command has not returned.
Pinging == \E c \in Cmds : call[c].pc \notin {"new", "done"}

\* ping() turns a LightStackWebSocketError into False; an error of the
\* transport raised by send_json is none and leaves ping and the loop.
PingRaised == \E c \in Cmds : call[c].pc = "done" /\ call[c].kind = "TransportError"

\* At the head of the loop, between two awaits.
MaintainAtHead == Supervised /\ ctl = "idle" /\ ~Pinging

\* `while self._running` holds and `self.connected` does not: reconnect(),
\* which begins with disconnect().
MaintainReconnect ==
    /\ MaintainAtHead
    /\ ~PingRaised
    /\ running
    /\ Len(delivered) < MaxLog
    /\ DisconnectBegin("reconnect")

\* The sleep is over and `self.connected` holds: ping(), a send_command.
MaintainPing ==
    /\ MaintainAtHead
    /\ ~PingRaised
    /\ running
    /\ Connected
    /\ \E c \in Cmds : SendCommandBegin(c, TRUE)

\* The loop is left: `while self._running` fails, or ping() raised.
MaintainExit ==
    /\ MaintainAtHead
    /\ ~running \/ PingRaised
    /\ sup' = "done"
    /\ UNCHANGED <<sessionVars, ownerVars, listeners, pending, fut, listenTask, listenErr,
                   call, wire, delivered, coordData, shut>>

\* The first frame of the reconnect() the loop is in. After a success the read
\* task is started and "reconnected" is dispatched with the state; a
\* LightStackConnectionError makes reconnect() return None; the ValueError of a
\* frame that is no JSON is not caught by reconnect() nor by the loop.
MaintainHandshake(first, state) ==
    /\ ctl = "handshake"
    /\ first \in FirstFrames
    /\ first \in {"established", "other_type", "non_text", "bad_json"} => linkUp
    /\ serverVersion' = IF first = "established" THEN ServerVersion ELSE serverVersion
    /\ wsClosed' = IF first = "closed" THEN TRUE ELSE wsClosed
    /\ linkUp' = IF first = "closed" THEN FALSE ELSE linkUp
    /\ connected' = IF first = "timeout" THEN FALSE ELSE connected
    /\ ctl' = "idle"
    /\ ctlOp' = "none"
    /\ ctlRes' = CASE first = "established" -> "ok"
                   [] first = "bad_json" -> "ValueError"
                   [] OTHER -> "None"
    /\ listenTask' = IF first = "established" THEN StartedTask ELSE listenTask
    /\ LET n == Notify(listeners, delivered, coordData, "reconnected", [state |-> state])
       IN IF first = "established"
          THEN /\ listeners' = n.listeners
               /\ delivered' = n.delivered
               /\ coordData' = n.data
          ELSE UNCHANGED <<listeners, delivered, coordData>>
    /\ sup' = IF first = "bad_json" THEN "done" ELSE sup
    /\ UNCHANGED <<ws, running, pending, fut, listenErr, call, wire, shut>>

MaintainInit ==
    /\ ws = "sock"
    /\ wsClosed = FALSE
    /\ linkUp = TRUE
    /\ connected = TRUE
    /\ running = TRUE
    /\ serverVersion = ServerVersion
    /\ listeners = <<TheListener>>
    /\ pending = {}
    /\ fut = [c \in Cmds |-> NoFuture]
    /\ listenTask = "recv"
    /\ listenErr = "none"
    /\ call = [c \in Cmds |-> NewCall]
    /\ wire = {}
    /\ ctl = "idle"
    /\ ctlOp = "none"
    /\ ctlRes = "ok"
    /\ delivered = <<>>
    /\ coordData = StateFromDict(EmptyMap)
    /\ sup = "alive"
    /\ shut = "none"

MaintainNext ==
    \/ MaintainReconnect
    \/ MaintainPing
    \/ MaintainExit
    \/ DisconnectJoined
    \/ DisconnectClosed
    \/ \E ok \in BOOLEAN : ConnectOpen(ok)
    \/ \E first \in FirstFrames, state \in HandshakeStates : MaintainHandshake(first, state)
    \/ \E c \in Cmds : SendJson(c)
    \/ \E c \in Cmds : AwaitDone(c)
    \/ \E c \in Cmds : TimeoutFires(c)
    \/ \E c \in Cmds : TimeoutRaised(c)
    \/ ListenStart
    \/ \E frame \in InboundFrames : ListenText(frame)
    \/ \E how \in {"got_close", "got_error"} : ListenReceivesEnd(how)
    \/ ListenExit
    \/ LinkDrop

MaintainSpec == MaintainInit /\ [][MaintainNext]_vars

\* C31: while the owner has not shut the session down (it never does here),
\* maintain_connection does not end: whatever a reconnect attempt came to, the
\* loop is still running afterwards and goes on to the next attempt.
C31_MaintainKeepsRunning == [][Supervised => Supervised']_vars

\* The loop has ended after a reconnect attempt in which no socket could be
\* opened.
C31_EndedAfterOpenFailure == sup = "done" /\ ctlRes = "None" /\ ~running /\ ws = "None"

\* C32: once a send_command call has finished, in whatever way, its command id
\* is not in the pending map: the map holds only ids of calls that have not yet
\* returned or raised.
C32_PendingOnlyUnfinished == \A c \in Cmds : call[c].pc = "done" => c \notin pending

\* The same for every way a call ends but a write that raises.
C32_ExceptFailedWrite ==
    \A c \in Cmds : (call[c].pc = "done" /\ call[c].kind # "TransportError") => c \notin pending

\* connect() has ended without a handshake: ws_connect failed or timed out, no
\* first frame came in time, or the first frame was not connection_established.
ConnectFails ==
    /\ ctl \in {"open", "handshake"}
    /\ ctl' = "idle"
    /\ ctlRes' \in {"ConnectionError", "None", "ValueError"}

\* C33: after connect() has failed, for whatever reason, `connected` is false:
\* the supervisor sees the link as down and send_command is rejected.
C33_FailedConnectNotConnected == [][ConnectFails => ~Connected']_vars

\* The same for a connect() that got no socket.
C33_NotConnectedWithoutSocket == [][(ConnectFails /\ ctl = "open") => ~Connected']_vars

\* connect() holds an open socket and waits for the first frame.
AwaitingHandshake == ctl = "handshake"

\* C34: while connect() waits for the connection_established frame the link
\* does not count as established: `connected` is false, a send_command called
\* then is rejected with ConnectionError, and no command frame is written.
C34_NotConnectedBeforeHandshake ==
    [][AwaitingHandshake =>
         /\ ~Connected
         /\ wire' = wire
         /\ \A c \in Cmds, w \in WaitModes :
               SendCommandBegin(c, w) => call'[c].kind = "ConnectionError"]_vars

\* A command frame was written while connect() still waited for the first frame.
C34_SentBeforeHandshake == AwaitingHandshake /\ wire # {}

\* connect() has returned the state of the handshake, and the owner has gone on
\* to the next await: the snapshot is set and the read task is made.
ConnectSucceeds == ctl = "handshake" /\ ctl' = "idle" /\ ctlRes' = "ok"

\* ws_connect has returned the socket of a new connection.
SocketOpened == ctl = "open" /\ ctl' = "handshake"

\* The read task reduces a push event it has received from the socket.
ReducesReceived ==
    \E frame \in CoordFrames :
        ListenText(frame) /\ coordData' = HandleEvent(coordData, frame.type, frame.data)

\* C35: the snapshot reflects only the connection in use. A new socket is
\* opened only when no read task is left to read from the old one; the state of
\* the handshake becomes the snapshot in the step in which connect() returns,
\* when the read task of the new socket is made but has read nothing; and from
\* then on the snapshot changes only by the reduction of an event the read task
\* receives, or by the next handshake. While the coordinator is subscribed, the
\* snapshot is thus the last handshake state folded with the events received
\* after it on that connection.
C35_SnapshotOfThisConnection ==
    [][/\ SocketOpened => listenTask \in {"None", "done"}
       /\ ConnectSucceeds =>
             /\ listenTask \in {"None", "done"}
             /\ listenTask' = "new"
             /\ \E state \in HandshakeStates : coordData' = StateFromDict(state)
       /\ coordData' # coordData => ConnectSucceeds \/ ReducesReceived
       /\ \A frame \in CoordFrames :
             (ListenText(frame) /\ Registered(TheListener)) =>
                 coordData' = HandleEvent(coordData, frame.type, frame.data)]_vars

\* C35 witness: after the read loop of the first connection has ended, a
\* reconnect installed the state with the door alert, and the smoke alert that
\* was then received on the new socket is folded into it.
C35_Witness ==
    /\ Len(delivered) = 2
    /\ delivered[1].type = "disconnected"
    /\ delivered[2].type = "alert_triggered"
    /\ listenTask = "recv"
    /\ coordData = HandleEvent(StateFromDict(DoorActive), "alert_triggered",
                               [alert |-> Smoke, current_changed |-> FALSE])
    /\ Len(coordData.active_alerts) = 2

---------------------------------------------------------------------------
\* The coordinator's session with start_listening called at any time by any
\* task, besides the calls of async_setup and reconnect().

\* disconnect() was woken from `await self._listen_task` by the end of the
\* cancelled task and has not run yet.
JoinWoken == ctl = "join" /\ listenTask = "done"

\* start_listening while disconnect() is woken but has not run. The finished
\* task is replaced by a new one. disconnect() was made ready before the new
\* task, so it runs first: it drops the reference and closes or drops the
\* socket up to its next await. The new task then runs: without a socket it
\* returns at once; on the socket being closed its receive() returns CLOSED
\* without waiting, the loop ends and the finally clause runs. Nothing can run
\* between these steps, and the task is finished before any other is made.
StartListeningJoinWoken ==
    LET cp == ClosePart(ctlOp)
        n == Notify(listeners, delivered, coordData, "disconnected", EmptyMap)
    IN /\ JoinWoken
       /\ listenTask' = "None"
       /\ ws' = cp.ws
       /\ wsClosed' = cp.closed
       /\ linkUp' = cp.up
       /\ ctl' = cp.ctl
       /\ ctlOp' = IF ctl' = "idle" THEN "none" ELSE ctlOp
       /\ ctlRes' = IF ctl' = "idle" THEN "ok" ELSE ctlRes
       /\ IF cp.ws = "None"
          THEN UNCHANGED <<connected, delivered, listeners, coordData>>
          ELSE /\ connected' = FALSE
               /\ delivered' = n.delivered
               /\ listeners' = n.listeners
               /\ coordData' = n.data
       /\ UNCHANGED <<running, serverVersion, pending, fut, listenErr, call, wire,
                      sup, shut>>

\* start_listening, called at any time. (A task made while connect() waits for
\* the first frame is taken to read like any other; a library that refuses a
\* second concurrent receive() ends it sooner.)
StartListening ==
    /\ Len(delivered) < MaxLog
    /\ IF JoinWoken
       THEN StartListeningJoinWoken
       ELSE /\ listenTask' = StartedTask
            /\ UNCHANGED <<sessionVars, ownerVars, listeners, pending, fut, listenErr,
                           call, wire, delivered, coordVars>>

ListenNext ==
    \/ CoordNext
    \/ StartListening

ListenSpec == Init /\ [][ListenNext]_vars

\* A read task is made in this step.
TaskMade == listenTask' = "new" /\ listenTask # "new"

\* The session drops its reference to the read task in this step.
TaskDropped == listenTask' = "None" /\ listenTask # "None"

====
